---- MODULE Spec2Model ----
(***************************************************************************)
(* Model of the channel-based connection pool (package pool):              *)
(* NewPool / Get / Put / Close / Release of channelPool.                   *)
(*                                                                         *)
(* Every section of code that runs between cp.mu.Lock() and                *)
(* cp.mu.Unlock() is one atomic action.  Code that runs outside the lock   *)
(* (the read of cp.closed at the top of Put and Close, the factory and     *)
(* close callbacks, the range loop of Release, the channel receive of a    *)
(* blocked Get) is a separate action, so that every interleaving the       *)
(* goroutines can produce is a behaviour of the model.                     *)
(***************************************************************************)
EXTENDS Integers, Sequences, FiniteSets, TLC

\* ---- bounds of the model ------------------------------------------------
NumProcs == 3        \* goroutines calling the pool
MaxCapBound == 2     \* largest Config.MaxCap tried
MaxConn == 3         \* connections the factory can hand out in one run
MaxOps == 4          \* pool operations started in one run

Procs == 1..NumProcs
Conns == 1..MaxConn

\* the nil interface value (conn == nil)
Nil == 0

VARIABLES
    maxOpen,       \* cp.maxOpen
    maxIdle,       \* cp.maxIdle
    freeConn,      \* cp.freeConn: sequence of idle connections, front first
    waitingQueue,  \* cp.waitingQueue: sequence of request channels, named by
                   \* the goroutine that made the channel
    numOpen,       \* cp.numOpen
    closed,        \* cp.closed
    chan,          \* the request channel of each goroutine: buffer and closed flag
    pc,            \* where each goroutine is inside its current call
    arg,           \* the conn argument of the Put / Close in progress
    rng,           \* the elements Release's range loop has still to visit
    held,          \* connections each caller currently owns
    closeCount,    \* how many times cp.close was invoked on each connection
    nextConn,      \* the next connection the factory produces
    ops,           \* operations started so far
    arrival,       \* ticket of each goroutine's enqueue in waitingQueue
    tickets,       \* tickets handed out so far
    released,      \* number of Release calls that have returned
    ev,            \* the return of the call that ended in the last step
    hist,          \* the last returns of one goroutine that ran alone
    now,           \* time.Now()
    stamp,         \* idleConn.t of the wrapper each connection was last put in
    np             \* the NewPool call: its Config, its position, its result

vars == <<maxOpen, maxIdle, freeConn, waitingQueue, numOpen, closed, chan, pc,
          arg, rng, held, closeCount, nextConn, ops, arrival, tickets,
          released, ev, hist, now, stamp, np>>

config == <<maxOpen, maxIdle>>

\* ---- helpers ------------------------------------------------------------
Range(s) == {s[i] : i \in 1..Len(s)}

EmptyChan == [buf |-> <<>>, closed |-> FALSE]

NoEv == [proc |-> 0, op |-> "none", conn |-> Nil, err |-> "nil",
         nfree |-> 0, nwait |-> 0]

\* the return value of a call, with the lengths of the idle set and of the
\* wait queue at the moment the call returned
Ret(p, op, c, e) == [proc |-> p, op |-> op, conn |-> c, err |-> e,
                     nfree |-> Len(freeConn), nwait |-> Len(waitingQueue)]

HistLen == 3

LastN(s) == IF Len(s) <= HistLen THEN s
            ELSE SubSeq(s, Len(s) - HistLen + 1, Len(s))

\* hist keeps the returns of goroutine p for as long as no other goroutine
\* takes a step
Track(p, evs) == IF hist.proc = p
                 THEN [proc |-> p, evs |-> LastN(hist.evs \o evs)]
                 ELSE [proc |-> p, evs |-> evs]

Returns(p, e) == /\ ev' = e
                 /\ hist' = Track(p, <<e>>)

Continues(p) == /\ ev' = NoEv
                /\ hist' = Track(p, <<>>)

\* ---- NewPool ------------------------------------------------------------
InvalidCapacity(ic, mc) == ic < 0 \/ mc < 0 \/ ic > mc

\* the NewPool call of a Config with both callbacks set, after it returned
\* the pool
Built(ic, mc) == [phase |-> "returned", ic |-> ic, mc |-> mc,
                  fnil |-> FALSE, cnil |-> FALSE, i |-> ic, err |-> "nil"]

Init ==
    /\ \E mc \in 0..MaxCapBound : \E ic \in 0..MaxCapBound :
          /\ ~InvalidCapacity(ic, mc)
          /\ np = Built(ic, mc)
          /\ maxOpen = mc
          /\ maxIdle = ic
          /\ freeConn = [i \in 1..ic |-> i]
          /\ numOpen = ic
          /\ nextConn = ic + 1
    /\ waitingQueue = <<>>
    /\ closed = FALSE
    /\ chan = [p \in Procs |-> EmptyChan]
    /\ pc = [p \in Procs |-> "idle"]
    /\ arg = [p \in Procs |-> Nil]
    /\ rng = [p \in Procs |-> <<>>]
    /\ held = [p \in Procs |-> {}]
    /\ closeCount = [c \in Conns |-> 0]
    /\ ops = 0
    /\ arrival = [p \in Procs |-> 0]
    /\ tickets = 0
    /\ released = 0
    /\ ev = NoEv
    /\ hist = [proc |-> 0, evs |-> <<>>]
    /\ now = 0
    /\ stamp = [c \in Conns |-> 0]

\* ---- Get ----------------------------------------------------------------
AtCapacity_OffByOne == maxOpen > 0 /\ numOpen > maxOpen

AtCapacity_OneEarly == maxOpen > 0 /\ numOpen + 1 >= maxOpen

AtCapacity == maxOpen > 0 /\ numOpen >= maxOpen

GetSeesClosed_Unchecked == FALSE

GetSeesClosed == closed

FrontConn == freeConn[1]

RestConns_Unpopped == freeConn

RestConns == SubSeq(freeConn, 2, Len(freeConn))

Enqueue_AtFront(q, p) == <<p>> \o q

Enqueue(q, p) == Append(q, p)

\* cp.mu.Lock() ... cp.mu.Unlock() of Get
GetLocked(p) ==
    /\ pc[p] = "idle"
    /\ ops < MaxOps
    /\ ops' = ops + 1
    /\ IF GetSeesClosed
       THEN /\ Returns(p, Ret(p, "Get", Nil, "ErrPoolClosed"))
            /\ UNCHANGED <<freeConn, waitingQueue, numOpen, chan, pc, held,
                           arrival, tickets>>
       ELSE IF Len(freeConn) > 0
       THEN /\ freeConn' = RestConns
            /\ held' = [held EXCEPT ![p] = @ \cup {FrontConn}]
            /\ Returns(p, Ret(p, "Get", FrontConn, "nil"))
            /\ UNCHANGED <<waitingQueue, numOpen, chan, pc, arrival, tickets>>
       ELSE IF AtCapacity
       THEN /\ chan' = [chan EXCEPT ![p] = EmptyChan]
            /\ waitingQueue' = Enqueue(waitingQueue, p)
            /\ tickets' = tickets + 1
            /\ arrival' = [arrival EXCEPT ![p] = tickets + 1]
            /\ pc' = [pc EXCEPT ![p] = "get_recv"]
            /\ Continues(p)
            /\ UNCHANGED <<freeConn, numOpen, held>>
       ELSE /\ nextConn + Cardinality({q \in Procs : pc[q] = "get_factory"})
                   <= MaxConn
            /\ numOpen' = numOpen + 1
            /\ pc' = [pc EXCEPT ![p] = "get_factory"]
            /\ Continues(p)
            /\ UNCHANGED <<freeConn, waitingQueue, chan, held, arrival,
                           tickets>>
    /\ UNCHANGED <<config, np, now, stamp, closed, arg, rng, closeCount, nextConn, released>>

\* ret, ok := <-req
GetRecv(p) ==
    /\ pc[p] = "get_recv"
    /\ chan[p].closed \/ chan[p].buf # <<>>
    /\ IF chan[p].buf # <<>>
       THEN /\ held' = [held EXCEPT ![p] = @ \cup {chan[p].buf[1]}]
            /\ Returns(p, Ret(p, "Get", chan[p].buf[1], "nil"))
       ELSE /\ held' = held
            /\ Returns(p, Ret(p, "Get", Nil, "ErrPoolClosed"))
    /\ chan' = [chan EXCEPT ![p].buf = <<>>]
    /\ arrival' = [arrival EXCEPT ![p] = 0]
    /\ pc' = [pc EXCEPT ![p] = "idle"]
    /\ UNCHANGED <<config, np, now, stamp, freeConn, waitingQueue, numOpen, closed, arg, rng,
                   closeCount, nextConn, ops, tickets, released>>

\* conn, err := cp.factory() with err == nil
GetFactoryOk(p) ==
    /\ pc[p] = "get_factory"
    /\ nextConn' = nextConn + 1
    /\ held' = [held EXCEPT ![p] = @ \cup {nextConn}]
    /\ pc' = [pc EXCEPT ![p] = "idle"]
    /\ Returns(p, Ret(p, "Get", nextConn, "nil"))
    /\ UNCHANGED <<config, np, now, stamp, freeConn, waitingQueue, numOpen, closed, chan, arg,
                   rng, closeCount, ops, arrival, tickets, released>>

\* conn, err := cp.factory() with err != nil
GetFactoryErr(p) ==
    /\ pc[p] = "get_factory"
    /\ pc' = [pc EXCEPT ![p] = "get_undo"]
    /\ Continues(p)
    /\ UNCHANGED <<config, np, now, stamp, freeConn, waitingQueue, numOpen, closed, chan, arg,
                   rng, held, closeCount, nextConn, ops, arrival, tickets,
                   released>>

UndoReservation_Forgotten == numOpen

UndoReservation == numOpen - 1

\* cp.mu.Lock(); cp.numOpen--; cp.mu.Unlock(); return nil, err
GetUndo(p) ==
    /\ pc[p] = "get_undo"
    /\ numOpen' = UndoReservation
    /\ pc' = [pc EXCEPT ![p] = "idle"]
    /\ Returns(p, Ret(p, "Get", Nil, "FactoryError"))
    /\ UNCHANGED <<config, np, now, stamp, freeConn, waitingQueue, closed, chan, arg, rng,
                   held, closeCount, nextConn, ops, arrival, tickets, released>>

\* ---- Put ----------------------------------------------------------------
PutSeesClosed_Unchecked == FALSE

PutSeesClosed == closed

CloseConn(c) == [closeCount EXCEPT ![c] = @ + 1]

\* the nil check and the read of cp.closed, both outside the lock
PutCheck(p, c) ==
    /\ pc[p] = "idle"
    /\ ops < MaxOps
    /\ ops' = ops + 1
    /\ IF c = Nil
       THEN /\ Returns(p, Ret(p, "Put", c, "ErrConnIsNil"))
            /\ UNCHANGED <<pc, arg, held, closeCount>>
       ELSE IF PutSeesClosed
       THEN /\ closeCount' = CloseConn(c)
            /\ held' = [held EXCEPT ![p] = @ \ {c}]
            /\ Returns(p, Ret(p, "Put", c, "ErrPoolClosedAndClose"))
            /\ UNCHANGED <<pc, arg>>
       ELSE /\ pc' = [pc EXCEPT ![p] = "put_locked"]
            /\ arg' = [arg EXCEPT ![p] = c]
            /\ Continues(p)
            /\ UNCHANGED <<held, closeCount>>
    /\ UNCHANGED <<config, np, now, stamp, freeConn, waitingQueue, numOpen, closed, chan, rng,
                   nextConn, arrival, tickets, released>>

OverCapacity == maxOpen > 0 /\ numOpen > maxOpen

FrontWaiter == waitingQueue[1]

RestWaiters_Kept == waitingQueue

RestWaiters == SubSeq(waitingQueue, 2, Len(waitingQueue))

\* req := make(chan idleConn, 1)
ChanCap == 1

PutIdle_Dropped(c) == freeConn

PutIdle(c) == Append(freeConn, c)

PutHasWaiter_Ignored == FALSE

PutHasWaiter == Len(waitingQueue) > 0

Deliver(c) == [chan EXCEPT ![FrontWaiter].buf = Append(@, c)]

\* cp.mu.Lock() ... cp.mu.Unlock() of Put
PutLocked(p) ==
    /\ pc[p] = "put_locked"
    /\ IF OverCapacity
       THEN /\ Returns(p, Ret(p, "Put", arg[p], "ErrOpenNumber"))
            /\ UNCHANGED <<freeConn, waitingQueue, chan, held, stamp>>
       ELSE IF PutHasWaiter
       THEN /\ Len(chan[FrontWaiter].buf) < ChanCap
            /\ waitingQueue' = RestWaiters
            /\ chan' = Deliver(arg[p])
            /\ held' = [held EXCEPT ![p] = @ \ {arg[p]}]
            /\ Returns(p, Ret(p, "Put", arg[p], "nil"))
            /\ UNCHANGED <<freeConn, stamp>>
       ELSE /\ freeConn' = PutIdle(arg[p])
            /\ stamp' = [stamp EXCEPT ![arg[p]] = now]
            /\ held' = [held EXCEPT ![p] = @ \ {arg[p]}]
            /\ Returns(p, Ret(p, "Put", arg[p], "nil"))
            /\ UNCHANGED <<waitingQueue, chan>>
    /\ pc' = [pc EXCEPT ![p] = "idle"]
    /\ arg' = [arg EXCEPT ![p] = Nil]
    /\ UNCHANGED <<config, np, now, numOpen, closed, rng, closeCount, nextConn, ops,
                   arrival, tickets, released>>

\* ---- Close --------------------------------------------------------------
CloseSeesClosed == closed

\* the nil check and the read of cp.closed, both outside the lock
CloseCheck(p, c) ==
    /\ pc[p] = "idle"
    /\ ops < MaxOps
    /\ ops' = ops + 1
    /\ IF c = Nil
       THEN /\ Returns(p, Ret(p, "Close", c, "ErrConnIsNil"))
            /\ UNCHANGED <<pc, arg, held, closeCount>>
       ELSE IF CloseSeesClosed
       THEN /\ closeCount' = CloseConn(c)
            /\ held' = [held EXCEPT ![p] = @ \ {c}]
            /\ Returns(p, Ret(p, "Close", c, "ErrPoolClosedAndClose"))
            /\ UNCHANGED <<pc, arg>>
       ELSE /\ pc' = [pc EXCEPT ![p] = "close_locked"]
            /\ arg' = [arg EXCEPT ![p] = c]
            /\ Continues(p)
            /\ UNCHANGED <<held, closeCount>>
    /\ UNCHANGED <<config, np, now, stamp, freeConn, waitingQueue, numOpen, closed, chan, rng,
                   nextConn, arrival, tickets, released>>

\* cp.mu.Lock(); cp.numOpen--; cp.mu.Unlock()
CloseLocked(p) ==
    /\ pc[p] = "close_locked"
    /\ numOpen' = numOpen - 1
    /\ pc' = [pc EXCEPT ![p] = "close_call"]
    /\ Continues(p)
    /\ UNCHANGED <<config, np, now, stamp, freeConn, waitingQueue, closed, chan, arg, rng,
                   held, closeCount, nextConn, ops, arrival, tickets, released>>

\* return cp.close(conn)
CloseCall(p) ==
    /\ pc[p] = "close_call"
    /\ closeCount' = CloseConn(arg[p])
    /\ held' = [held EXCEPT ![p] = @ \ {arg[p]}]
    /\ pc' = [pc EXCEPT ![p] = "idle"]
    /\ arg' = [arg EXCEPT ![p] = Nil]
    /\ Returns(p, Ret(p, "Close", arg[p], "nil"))
    /\ UNCHANGED <<config, np, now, stamp, freeConn, waitingQueue, numOpen, closed, chan, rng,
                   nextConn, ops, arrival, tickets, released>>

\* ---- Release ------------------------------------------------------------
\* cp.mu.Lock(); cp.closed = true; cp.mu.Unlock()
ReleaseLocked(p) ==
    /\ pc[p] = "idle"
    /\ ops < MaxOps
    /\ ops' = ops + 1
    /\ closed' = TRUE
    /\ pc' = [pc EXCEPT ![p] = "release_range"]
    /\ Continues(p)
    /\ UNCHANGED <<config, np, now, stamp, freeConn, waitingQueue, numOpen, chan, arg, rng,
                   held, closeCount, nextConn, arrival, tickets, released>>

\* the range expression cp.freeConn is evaluated once, outside the lock
ReleaseRange(p) ==
    /\ pc[p] = "release_range"
    /\ rng' = [rng EXCEPT ![p] = freeConn]
    /\ pc' = [pc EXCEPT ![p] = "release_loop"]
    /\ Continues(p)
    /\ UNCHANGED <<config, np, now, stamp, freeConn, waitingQueue, numOpen, closed, chan, arg,
                   held, closeCount, nextConn, ops, arrival, tickets, released>>

\* one iteration of the loop, cp.close((*wrapConn).conn), or its end
ReleaseLoop(p) ==
    /\ pc[p] = "release_loop"
    /\ IF rng[p] # <<>>
       THEN /\ closeCount' = CloseConn(Head(rng[p]))
            /\ rng' = [rng EXCEPT ![p] = Tail(@)]
            /\ Continues(p)
            /\ UNCHANGED <<pc, released>>
       ELSE /\ pc' = [pc EXCEPT ![p] = "idle"]
            /\ released' = released + 1
            /\ Returns(p, Ret(p, "Release", Nil, "nil"))
            /\ UNCHANGED <<closeCount, rng>>
    /\ UNCHANGED <<config, np, now, stamp, freeConn, waitingQueue, numOpen, closed, chan, arg,
                   held, nextConn, ops, arrival, tickets>>

\* ---- the callers --------------------------------------------------------
\* a caller hands back a connection it owns, or nil
PutArgs(p) == held[p] \cup {Nil}

Next ==
    \/ \E p \in Procs : GetLocked(p)
    \/ \E p \in Procs : GetRecv(p)
    \/ \E p \in Procs : GetFactoryOk(p)
    \/ \E p \in Procs : GetFactoryErr(p)
    \/ \E p \in Procs : GetUndo(p)
    \/ \E p \in Procs : \E c \in PutArgs(p) : PutCheck(p, c)
    \/ \E p \in Procs : PutLocked(p)
    \/ \E p \in Procs : \E c \in PutArgs(p) : CloseCheck(p, c)
    \/ \E p \in Procs : CloseLocked(p)
    \/ \E p \in Procs : CloseCall(p)
    \/ \E p \in Procs : ReleaseLocked(p)
    \/ \E p \in Procs : ReleaseRange(p)
    \/ \E p \in Procs : ReleaseLoop(p)

Spec == Init /\ [][Next]_vars

\* a goroutine in the middle of a call always gets to take its next step; a
\* caller is never obliged to start another call
Step(p) ==
    \/ GetRecv(p)
    \/ GetFactoryOk(p)
    \/ GetUndo(p)
    \/ PutLocked(p)
    \/ CloseLocked(p)
    \/ CloseCall(p)
    \/ ReleaseRange(p)
    \/ ReleaseLoop(p)

FairSpec == Spec /\ \A p \in Procs : WF_vars(Step(p))

\* ---- time ---------------------------------------------------------------
MaxTime == 2         \* the clock runs from 0 to MaxTime

\* Config.IdleTimeout
IdleTimeout == 1

\* time passes
Tick ==
    /\ now < MaxTime
    /\ now' = now + 1
    /\ UNCHANGED <<config, np, stamp, freeConn, waitingQueue, numOpen, closed,
                   chan, pc, arg, rng, held, closeCount, nextConn, ops,
                   arrival, tickets, released, ev, hist>>

NextTime ==
    \/ Next
    \/ Tick

SpecTime == Init /\ [][NextTime]_vars

\* ---- the NewPool call itself ----------------------------------------------
\* NewPool runs in goroutine 1, before any other goroutine has the pool
Ctor == 1

NewPoolInit ==
    /\ \E ic \in -1..MaxCapBound : \E mc \in -1..MaxCapBound :
       \E fn \in BOOLEAN : \E cn \in BOOLEAN :
          np = [phase |-> "validate", ic |-> ic, mc |-> mc, fnil |-> fn,
                cnil |-> cn, i |-> 0, err |-> "nil"]
    /\ maxOpen = 0
    /\ maxIdle = 0
    /\ freeConn = <<>>
    /\ numOpen = 0
    /\ nextConn = 1
    /\ waitingQueue = <<>>
    /\ closed = FALSE
    /\ chan = [p \in Procs |-> EmptyChan]
    /\ pc = [p \in Procs |-> "idle"]
    /\ arg = [p \in Procs |-> Nil]
    /\ rng = [p \in Procs |-> <<>>]
    /\ held = [p \in Procs |-> {}]
    /\ closeCount = [c \in Conns |-> 0]
    /\ ops = 0
    /\ arrival = [p \in Procs |-> 0]
    /\ tickets = 0
    /\ released = 0
    /\ ev = NoEv
    /\ hist = [proc |-> 0, evs |-> <<>>]
    /\ now = 0
    /\ stamp = [c \in Conns |-> 0]

\* the three checks of the Config, and the construction of cp
NewPoolValidate ==
    /\ np.phase = "validate"
    /\ IF InvalidCapacity(np.ic, np.mc)
       THEN /\ np' = [np EXCEPT !.phase = "returned",
                                !.err = "ErrInvalidCapacity"]
            /\ UNCHANGED config
       ELSE IF np.fnil
       THEN /\ np' = [np EXCEPT !.phase = "returned",
                                !.err = "ErrInvalidFactoryFunc"]
            /\ UNCHANGED config
       ELSE IF np.cnil
       THEN /\ np' = [np EXCEPT !.phase = "returned",
                                !.err = "ErrInvalidCloseFunc"]
            /\ UNCHANGED config
       ELSE /\ np' = [np EXCEPT !.phase = "fill"]
            /\ maxIdle' = np.ic
            /\ maxOpen' = np.mc
    /\ UNCHANGED <<freeConn, waitingQueue, numOpen, closed, chan, pc, arg, rng,
                   held, closeCount, nextConn, ops, arrival, tickets, released,
                   ev, hist, now, stamp>>

FillAppend_Dropped(c) == freeConn

FillAppend(c) == Append(freeConn, c)

\* one round of the loop: cp.factory() succeeds, the connection is appended
NewPoolFactoryOk ==
    /\ np.phase = "fill"
    /\ np.i < np.ic
    /\ freeConn' = FillAppend(nextConn)
    /\ stamp' = [stamp EXCEPT ![nextConn] = now]
    /\ nextConn' = nextConn + 1
    /\ np' = [np EXCEPT !.i = @ + 1]
    /\ UNCHANGED <<config, waitingQueue, numOpen, closed, chan, pc, arg, rng,
                   held, closeCount, ops, arrival, tickets, released, ev, hist,
                   now>>

\* one round of the loop: cp.factory() fails, cp.Release() is called
NewPoolFactoryErr ==
    /\ np.phase = "fill"
    /\ np.i < np.ic
    /\ np' = [np EXCEPT !.phase = "release"]
    /\ UNCHANGED <<config, freeConn, waitingQueue, numOpen, closed, chan, pc,
                   arg, rng, held, closeCount, nextConn, ops, arrival, tickets,
                   released, ev, hist, now, stamp>>

\* cp.Release(), called by NewPool
NewPoolRelease ==
    /\ np.phase = "release"
    /\ released = 0
    /\ \/ ReleaseLocked(Ctor)
       \/ ReleaseRange(Ctor)
       \/ ReleaseLoop(Ctor)

\* return nil, fmt.Errorf("factory is not able to fill the pool: %s", err)
NewPoolReturnErr ==
    /\ np.phase = "release"
    /\ released > 0
    /\ np' = [np EXCEPT !.phase = "returned", !.err = "FactoryError"]
    /\ UNCHANGED <<config, freeConn, waitingQueue, numOpen, closed, chan, pc,
                   arg, rng, held, closeCount, nextConn, ops, arrival, tickets,
                   released, ev, hist, now, stamp>>

\* the loop is over: cp.numOpen = poolConfig.InitialCap; return cp, nil
NewPoolReturnOk ==
    /\ np.phase = "fill"
    /\ np.i >= np.ic
    /\ numOpen' = np.ic
    /\ np' = [np EXCEPT !.phase = "returned"]
    /\ UNCHANGED <<config, freeConn, waitingQueue, closed, chan, pc, arg, rng,
                   held, closeCount, nextConn, ops, arrival, tickets, released,
                   ev, hist, now, stamp>>

NextNew ==
    \/ NewPoolValidate
    \/ NewPoolFactoryOk
    \/ NewPoolFactoryErr
    \/ NewPoolRelease
    \/ NewPoolReturnErr
    \/ NewPoolReturnOk

SpecNew == NewPoolInit /\ [][NextNew]_vars

\* ---- GetTry --------------------------------------------------------------
\* GetTry is declared in the Pool interface and called by the example client,
\* which takes a nil connection with a nil error for "nothing available".
\* It is Get with the wait replaced by that return; the factory call and
\* its undo are those of Get.
GetTryLocked_Blocking(p) == GetLocked(p)

GetTryLocked(p) ==
    /\ pc[p] = "idle"
    /\ ops < MaxOps
    /\ ops' = ops + 1
    /\ IF closed
       THEN /\ Returns(p, Ret(p, "GetTry", Nil, "ErrPoolClosed"))
            /\ UNCHANGED <<freeConn, numOpen, pc, held>>
       ELSE IF Len(freeConn) > 0
       THEN /\ freeConn' = RestConns
            /\ held' = [held EXCEPT ![p] = @ \cup {FrontConn}]
            /\ Returns(p, Ret(p, "GetTry", FrontConn, "nil"))
            /\ UNCHANGED <<numOpen, pc>>
       ELSE IF AtCapacity
       THEN /\ Returns(p, Ret(p, "GetTry", Nil, "nil"))
            /\ UNCHANGED <<freeConn, numOpen, pc, held>>
       ELSE /\ nextConn + Cardinality({q \in Procs : pc[q] = "get_factory"})
                   <= MaxConn
            /\ numOpen' = numOpen + 1
            /\ pc' = [pc EXCEPT ![p] = "get_factory"]
            /\ Continues(p)
            /\ UNCHANGED <<freeConn, held>>
    /\ UNCHANGED <<config, np, now, stamp, waitingQueue, chan, arrival,
                   tickets, closed, arg, rng, closeCount, nextConn, released>>

NextTry ==
    \/ Next
    \/ \E p \in Procs : GetTryLocked(p)

SpecTry == Init /\ [][NextTry]_vars

\* ---- properties ---------------------------------------------------------
\* the step in which goroutine p calls Get
GetCall(p) ==
    /\ pc[p] = "idle"
    /\ \/ pc'[p] \in {"get_recv", "get_factory"}
       \/ ev'.proc = p /\ ev'.op = "Get"

\* the step in which goroutine p calls Put
PutCall(p) ==
    /\ pc[p] = "idle"
    /\ \/ pc'[p] = "put_locked"
       \/ ev'.proc = p /\ ev'.op = "Put"

\* the step in which goroutine p calls Close
CloseCall1(p) ==
    /\ pc[p] = "idle"
    /\ \/ pc'[p] = "close_locked"
       \/ ev'.proc = p /\ ev'.op = "Close"

\* C1: numOpen is never negative and, when maxOpen > 0, never exceeds
\* maxOpen, also while a Get holds a reserved slot inside the factory call.
C1_NumOpenInBounds ==
    /\ numOpen >= 0
    /\ maxOpen > 0 => numOpen <= maxOpen

\* a Get is inside the factory call and its reservation fills the last slot
C1_Witness ==
    /\ maxOpen > 0
    /\ numOpen = maxOpen
    /\ \E p \in Procs : pc[p] = "get_factory"
    /\ \E q \in Procs : held[q] # {}

\* C2: once the pool is closed, every Get that is blocked in the wait queue
\* eventually returns ErrPoolClosed.
C2_BlockedGetsUnblock ==
    \A p \in Procs :
        [](closed /\ pc[p] = "get_recv"
             => <>(ev.proc = p /\ ev.op = "Get" /\ ev.err = "ErrPoolClosed"))

\* C3: after every Put that returns, the idle set holds at most maxIdle
\* connections.
C3_IdleWithinMaxIdle ==
    ev.op = "Put" => Len(freeConn) <= maxIdle

\* C4: a Put hands its connection to the waiter that was enqueued first: the
\* goroutine whose channel is filled has the smallest ticket of all the
\* goroutines still waiting for a delivery.
C4_WaitersServedInOrder ==
    [][\A p \in Procs :
          (chan[p].buf = <<>> /\ chan'[p].buf # <<>>)
            => /\ pc[p] = "get_recv"
               /\ \A q \in Procs \ {p} :
                     (pc[q] = "get_recv" /\ chan[q].buf = <<>>)
                        => arrival[p] < arrival[q]]_vars

\* two Gets were enqueued, and the earlier one has been served
C4_Witness ==
    \E p, q \in Procs :
        /\ pc[p] = "get_recv" /\ chan[p].buf # <<>>
        /\ pc[q] = "get_recv" /\ chan[q].buf = <<>>
        /\ arrival[p] < arrival[q]

\* the last three returns of a goroutine that ran alone
Last3 == SubSeq(hist.evs, Len(hist.evs) - 2, Len(hist.evs))

\* a goroutine, alone, got connection Last3[1].conn and put it back
GotAndPutBack ==
    /\ Len(hist.evs) >= 3
    /\ Last3[1].op = "Get" /\ Last3[1].err = "nil"
    /\ Last3[2].op = "Put" /\ Last3[2].err = "nil"
    /\ Last3[2].conn = Last3[1].conn
    /\ Last3[3].op = "Get"

\* C5 as stated: Get, Put of the same connection, Get, with no other caller
\* in between: the second Get returns the connection of the first, whatever
\* the idle set holds.
C5_RoundTripAnyIdleSet ==
    GotAndPutBack => Last3[3].err = "nil" /\ Last3[3].conn = Last3[1].conn

\* C5 amended: the same, when the Put found the idle set and the wait queue
\* empty.
C5_RoundTripEmptyIdleSet ==
    (GotAndPutBack /\ Last3[2].nfree = 0 /\ Last3[2].nwait = 0)
       => Last3[3].err = "nil" /\ Last3[3].conn = Last3[1].conn

C5_Witness ==
    /\ GotAndPutBack
    /\ Last3[2].nfree = 0
    /\ Last3[2].nwait = 0
    /\ Last3[3].conn = Last3[1].conn
    /\ Last3[1].conn # Nil

\* C6: a Get whose factory call failed returns the error and no connection,
\* and takes back exactly the slot it reserved: numOpen goes down by one,
\* stays non-negative and leaves room for another Get to construct; with
\* maxOpen = 1 it is 0.
C6_FailedGetUndoesReservation ==
    [][\A p \in Procs :
          (pc[p] = "get_undo" /\ pc'[p] = "idle")
            => /\ ev'.proc = p /\ ev'.op = "Get"
               /\ ev'.err = "FactoryError" /\ ev'.conn = Nil
               /\ numOpen' = numOpen - 1
               /\ numOpen' >= 0
               /\ maxOpen > 0 => numOpen' < maxOpen
               /\ maxOpen = 1 => numOpen' = 0]_vars

\* maxOpen = 1: a Get failed in the factory and the next Get constructed
C6_Witness ==
    /\ maxOpen = 1
    /\ numOpen = 1
    /\ Len(hist.evs) >= 2
    /\ hist.evs[Len(hist.evs) - 1].err = "FactoryError"
    /\ hist.evs[Len(hist.evs)].op = "Get"
    /\ hist.evs[Len(hist.evs)].err = "nil"
    /\ hist.evs[Len(hist.evs)].conn = nextConn - 1

\* C7: a Get called after a Release has returned fails with ErrPoolClosed in
\* that very step: no connection, no factory call, no waiter, numOpen and the
\* idle set as they were.
C7_GetAfterRelease ==
    [][\A p \in Procs :
          (released > 0 /\ GetCall(p))
            => /\ ev'.proc = p /\ ev'.op = "Get"
               /\ ev'.err = "ErrPoolClosed" /\ ev'.conn = Nil
               /\ pc'[p] = "idle"
               /\ UNCHANGED <<freeConn, waitingQueue, numOpen, nextConn,
                              held, chan>>]_vars

\* a Get was refused after Release although a connection sits in the idle set
C7_Witness ==
    /\ released > 0
    /\ ev.op = "Get"
    /\ ev.err = "ErrPoolClosed"
    /\ Len(freeConn) > 0

\* the connection handed to the Put or Close that starts in this step
CallArg(p) == IF pc'[p] = "idle" THEN ev'.conn ELSE arg'[p]

\* C8: a Put or Close of a non-nil connection called after a Release has
\* returned invokes the closer on it once, reports ErrPoolClosedAndClose in
\* that very step, and leaves the idle set, the wait queue and every request
\* channel as they were.
C8_PutOrCloseAfterRelease ==
    [][\A p \in Procs :
          (released > 0 /\ (PutCall(p) \/ CloseCall1(p)) /\ CallArg(p) # Nil)
            => /\ ev'.proc = p
               /\ ev'.err = "ErrPoolClosedAndClose"
               /\ pc'[p] = "idle"
               /\ closeCount' = [closeCount EXCEPT ![CallArg(p)] = @ + 1]
               /\ UNCHANGED <<freeConn, waitingQueue, chan>>]_vars

\* a Put after Release was closed and discarded although a Get is waiting
C8_Witness ==
    /\ released > 0
    /\ ev.op = "Put"
    /\ ev.err = "ErrPoolClosedAndClose"
    /\ closeCount[ev.conn] = 1
    /\ Len(waitingQueue) > 0

\* C9: once a Release has returned and no Put is in progress, no connection
\* sits unclosed in the idle set.
C9_NoUnclosedIdleAfterRelease ==
    (released > 0 /\ \A p \in Procs : pc[p] # "put_locked")
       => \A i \in 1..Len(freeConn) : closeCount[freeConn[i]] > 0

\* C10: with the idle set empty and every slot taken a Get blocks; a Put that
\* finds a waiter puts its connection into the channel of that waiter and
\* leaves the idle set as it was; the waiter returns that very connection; a
\* connection that is in a channel is not in the idle set.
C10_PutHandsOverToWaiter ==
    /\ [](\A p \in Procs : \A i \in 1..Len(chan[p].buf) :
             chan[p].buf[i] \notin Range(freeConn))
    /\ [][\A p \in Procs :
            /\ (GetCall(p) /\ ~closed /\ freeConn = <<>> /\ maxOpen > 0
                  /\ numOpen = maxOpen)
                 => pc'[p] = "get_recv" /\ ev'.op = "none"
            /\ (pc[p] = "put_locked" /\ pc'[p] = "idle" /\ waitingQueue # <<>>)
                 => /\ ev'.err = "nil"
                    /\ freeConn' = freeConn
                    /\ arg[p] \notin Range(freeConn)
                    /\ \E q \in Procs : /\ pc[q] = "get_recv"
                                        /\ chan[q].buf = <<>>
                                        /\ chan'[q].buf = <<arg[p]>>
            /\ (pc[p] = "get_recv" /\ pc'[p] = "idle")
                 => /\ ev'.proc = p /\ ev'.op = "Get" /\ ev'.err = "nil"
                    /\ <<ev'.conn>> = chan[p].buf
                    /\ ev'.conn \in held'[p]]_vars

\* initialSize = 1, maxOpen = 2: two connections were handed out, the third
\* Get blocked, and a Put has filled its channel
C10_Witness ==
    /\ maxOpen = 2 /\ maxIdle = 1
    /\ numOpen = 2
    /\ freeConn = <<>>
    /\ ev.op = "Put" /\ ev.err = "nil"
    /\ \E p \in Procs : /\ pc[p] = "get_recv"
                        /\ chan[p].buf = <<ev.conn>>
    /\ \E q \in Procs : held[q] # {}

\* C11: with IdleTimeout > 0, a Get that takes a connection from the idle set
\* never returns one that was put there more than IdleTimeout ago.
C11_NoExpiredIdleConn ==
    [][\A p \in Procs :
          (GetCall(p) /\ ev'.op = "Get" /\ ev'.conn # Nil)
            => now - stamp[ev'.conn] <= IdleTimeout]_vars

\* goroutine p takes a step of a Release that it called after its previous
\* Release had returned, no other goroutine having acted in between
SecondReleaseStep(p) ==
    /\ hist.proc = p
    /\ Len(hist.evs) > 0
    /\ hist.evs[Len(hist.evs)].op = "Release"
    /\ \/ pc[p] = "idle" /\ pc'[p] = "release_range"
       \/ pc[p] = "release_range" /\ pc'[p] = "release_loop"
       \/ pc[p] = "release_loop" /\ (pc'[p] = "idle" \/ rng'[p] # rng[p])

\* C12: a Release called after a Release has returned invokes the closer on
\* nothing and leaves closed, the idle set, the wait queue and numOpen as
\* they were.
C12_SecondReleaseIsNoOp ==
    [][\A p \in Procs :
          SecondReleaseStep(p)
            => UNCHANGED <<closeCount, closed, freeConn, waitingQueue,
                           numOpen>>]_vars

\* the NewPool call has returned
Returned == np.phase = "returned"

\* the state NewPool leaves behind is a state the pool starts from
StartsAsInit ==
    /\ np = Built(np.ic, np.mc)
    /\ maxOpen = np.mc
    /\ maxIdle = np.ic
    /\ freeConn = [i \in 1..np.ic |-> i]
    /\ numOpen = np.ic
    /\ nextConn = np.ic + 1
    /\ ~closed
    /\ \A c \in Conns : closeCount[c] = 0 /\ stamp[c] = 0

\* C13: when the factory fails on the k-th creation NewPool returns an error
\* and the closer has been invoked exactly once on each of the k-1
\* connections created before; when every creation succeeds the pool starts
\* with numOpen = InitialCap and InitialCap idle connections, none closed.
C13_NewPoolAllOrNothing ==
    /\ (Returned /\ np.err = "FactoryError")
          => /\ np.i < np.ic
             /\ nextConn = np.i + 1
             /\ \A c \in Conns : closeCount[c] = IF c <= np.i THEN 1 ELSE 0
    /\ (Returned /\ np.err = "nil")
          => /\ numOpen = np.ic
             /\ Len(freeConn) = np.ic
             /\ Cardinality(Range(freeConn)) = np.ic
             /\ StartsAsInit

\* the factory failed after at least one connection had been created
C13_Witness ==
    /\ Returned
    /\ np.err = "FactoryError"
    /\ np.i >= 1
    /\ closeCount[1] = 1

\* C14: NewPool refuses the Config exactly when InitialCap < 0, or
\* MaxCap < 0, or MaxCap > 0 and InitialCap > MaxCap, or a callback is nil.
C14_RejectsExactlyInvalidConfig ==
    np.phase # "validate"
      => ((np.err \in {"ErrInvalidCapacity", "ErrInvalidFactoryFunc",
                        "ErrInvalidCloseFunc"})
            <=> (\/ np.ic < 0
                 \/ np.mc < 0
                 \/ np.mc > 0 /\ np.ic > np.mc
                 \/ np.fnil
                 \/ np.cnil))

\* the connections the callers hold
AllHeld == UNION {held[p] : p \in Procs}

\* every call made so far was a Get that returned a connection
OnlyGetsSoFar == Cardinality(AllHeld) = ops

\* C15: on a fresh pool with MaxCap > 0 the first MaxCap Gets, no other call
\* in between, do not block: the first InitialCap take the front of the idle
\* set, the others call the factory and return what it made; a Put of a
\* non-nil connection on a pool that was not released goes on to the lock and
\* returns nil.
C15_FirstGetsAndPutsSucceed ==
    [][\A p \in Procs :
          /\ (GetCall(p) /\ maxOpen > 0 /\ ops < maxOpen /\ OnlyGetsSoFar)
                => IF ops < maxIdle
                   THEN /\ pc'[p] = "idle"
                        /\ ev'.err = "nil"
                        /\ ev'.conn = freeConn[1]
                        /\ ev'.conn \in held'[p]
                   ELSE /\ pc'[p] = "get_factory"
                        /\ freeConn = <<>>
          /\ (pc[p] = "get_factory" /\ pc'[p] = "idle")
                => /\ ev'.proc = p /\ ev'.op = "Get" /\ ev'.err = "nil"
                   /\ ev'.conn \in Conns \ AllHeld
                   /\ ev'.conn \in held'[p]
          /\ (PutCall(p) /\ CallArg(p) # Nil /\ ~closed)
                => pc'[p] = "put_locked"
          /\ (pc[p] = "put_locked" /\ pc'[p] = "idle")
                => ev'.proc = p /\ ev'.op = "Put" /\ ev'.err = "nil"]_vars

\* InitialCap = 1, MaxCap = 2: one goroutine made the two Gets and the two
\* Puts, nothing else happened
C15_Witness ==
    /\ maxOpen = 2 /\ maxIdle = 1
    /\ ops = 4
    /\ nextConn = 3
    /\ Len(freeConn) = 2
    /\ AllHeld = {}
    /\ Len(hist.evs) >= 3
    /\ Last3[1].op = "Get" /\ Last3[1].err = "nil" /\ Last3[1].conn = 2
    /\ Last3[2].op = "Put" /\ Last3[2].err = "nil"
    /\ Last3[3].op = "Put" /\ Last3[3].err = "nil"

\* C16: GetTry never enqueues and never waits; on an open pool with the idle
\* set empty and every slot taken it returns a nil connection with a nil
\* error in that very step and leaves the idle set, the wait queue and
\* numOpen as they were.
C16_GetTryNeverBlocks ==
    [][\A p \in Procs :
          GetTryLocked(p)
            => /\ waitingQueue' = waitingQueue
               /\ pc'[p] # "get_recv"
               /\ (~closed /\ freeConn = <<>> /\ maxOpen > 0
                     /\ numOpen >= maxOpen)
                    => /\ ev'.proc = p /\ ev'.op = "GetTry"
                       /\ ev'.conn = Nil /\ ev'.err = "nil"
                       /\ pc'[p] = "idle"
                       /\ UNCHANGED <<freeConn, numOpen, held, chan,
                                      nextConn>>]_vars

\* a GetTry came back empty-handed from a full pool on which a Get waits
C16_Witness ==
    /\ ev.op = "GetTry"
    /\ ev.conn = Nil
    /\ ev.err = "nil"
    /\ ~closed
    /\ maxOpen > 0
    /\ numOpen = maxOpen
    /\ freeConn = <<>>
    /\ Len(waitingQueue) = 1

\* C17: a Get that waits while numOpen is below maxOpen (a holder closed its
\* connection, or a factory call failed) is eventually handed a connection,
\* unless the pool is released.
C17_WaiterServedWhenSlotOpens ==
    \A p \in Procs :
        []((pc[p] = "get_recv" /\ chan[p].buf = <<>> /\ numOpen < maxOpen)
             => <>(closed \/ (ev.proc = p /\ ev.op = "Get" /\ ev.err = "nil")))

\* the connections the factory has made
Created == 1..(nextConn - 1)

\* made, not closed, and not in the hands of a Close that has already taken
\* it off numOpen
Live == {c \in Created :
            /\ closeCount[c] = 0
            /\ \A p \in Procs : ~(pc[p] = "close_call" /\ arg[p] = c)}

\* slots reserved by a Get that is in, or has not yet undone, its factory call
Reserved == Cardinality({p \in Procs : pc[p] \in {"get_factory", "get_undo"}})

\* the number of places connection c is in
Places(c) ==
    Cardinality({i \in 1..Len(freeConn) : freeConn[i] = c})
      + Cardinality({p \in Procs : c \in held[p]})
      + Cardinality({p \in Procs : c \in Range(chan[p].buf)})

\* C18: numOpen is the number of connections made and not closed plus the
\* slots reserved for creation, and each of these connections is in exactly
\* one place: the idle set, a caller's hands, or a request channel.
C18_NumOpenCountsLiveConns ==
    /\ numOpen = Cardinality(Live) + Reserved
    /\ \A c \in Live : Places(c) = 1

\* C19: a request channel is sent to at most once: it is sent to only while
\* its goroutine waits on it with the buffer empty, and it has left the wait
\* queue by then; no channel is in the wait queue twice; so the buffer never
\* holds more than ChanCap connections and the locked section of Put can
\* always run.
C19_OneDeliveryPerWaitSlot ==
    /\ [](\A p \in Procs :
            /\ Len(chan[p].buf) <= ChanCap
            /\ Cardinality({i \in 1..Len(waitingQueue) :
                               waitingQueue[i] = p}) <= 1
            /\ p \in Range(waitingQueue)
                  => pc[p] = "get_recv" /\ chan[p].buf = <<>>
            /\ pc[p] = "put_locked" => ENABLED PutLocked(p))
    /\ [][\A p \in Procs :
            (chan'[p].buf # chan[p].buf /\ chan'[p].buf # <<>>)
              => /\ chan[p].buf = <<>>
                 /\ pc[p] = "get_recv"
                 /\ p \in Range(waitingQueue)
                 /\ p \notin Range(waitingQueue')]_vars

\* one waiter has been sent its connection while another is still queued
C19_Witness ==
    \E p \in Procs :
        /\ pc[p] = "get_recv"
        /\ Len(chan[p].buf) = 1
        /\ Len(waitingQueue) >= 1
        /\ p \notin Range(waitingQueue)

\* C20: no connection is in the idle set while a caller holds it, no
\* connection is held by two callers, and a connection that Get returns has
\* not been closed.
C20_ExclusiveOwnership ==
    /\ \A p \in Procs : held[p] \cap Range(freeConn) = {}
    /\ \A p, q \in Procs : p # q => held[p] \cap held[q] = {}
    /\ (ev.op = "Get" /\ ev.conn # Nil) => closeCount[ev.conn] = 0

\* a Get returned a connection after the pool was closed and another
\* connection was closed
C20_Witness ==
    /\ ev.op = "Get"
    /\ ev.conn # Nil
    /\ ev.conn \in held[ev.proc]
    /\ closed
    /\ \E c \in Conns : closeCount[c] > 0

====
